---- MODULE Spec2Model ----
(***************************************************************************)
(* Model of src/infix_postfix_evaluator.py: the tokenizer, the validator,  *)
(* the two shunting-yard converters and the two stack evaluators, the      *)
(* process-wide debug collector they log to, and the try block of main()   *)
(* that calls them in order.                                               *)
(*                                                                         *)
(* A Python str is a sequence of characters, a character a one-element     *)
(* TLA+ string; the two full-width brackets are written "FW(" and "FW)".   *)
(* A token is a str, a token list a sequence of tokens.                    *)
(*                                                                         *)
(* A number (Python int, or float after a division) is an integer part    *)
(* and a count of 10^-ROUND_DIGITS: 1.5 is [whole 1, micro 500000], -0.5   *)
(* is [whole -1, micro 500000].  Sums, differences and products with an    *)
(* integer factor are exact; a quotient is rounded as round(a / b, 6)      *)
(* rounds it.  The binary error of a float is not modelled, and a product  *)
(* of two non-integers is kept to the same six digits.                     *)
(***************************************************************************)
EXTENDS Integers, Sequences, FiniteSets, TLC

VARIABLES
    expression,   \* per caller: the input text (input_expr.strip(), main line 561)
    tokens,       \* per caller: the caller's token list (main's local `tokens`)
    pc,           \* per caller: the next call to make
    error,        \* per caller: the exception that ended the try block, if any
    prefix,       \* per caller: outcome of infix_to_prefix
    postfix,      \* per caller: outcome of infix_to_postfix
    post_result,  \* per caller: outcome of evaluate_postfix
    pre_result,   \* per caller: outcome of evaluate_prefix
    verdict,      \* per caller: outcome of validate_expression
    messages      \* debug_handler.messages: one list for the whole process

vars == <<expression, tokens, pc, error, prefix, postfix, post_result,
          pre_result, verdict, messages>>

(***************************************************************************)
(* Bounds of the model.                                                    *)
(***************************************************************************)
MaxLen == 4
MaxTokens == 5
MaxInfixLen == 7
MaxDigit == 1
MaxOperand == 2

Callers == {1, 2}

(***************************************************************************)
(* Characters and strings.                                                 *)
(***************************************************************************)
DigitChars == <<"0", "1", "2", "3", "4", "5", "6", "7", "8", "9">>

Digits == {DigitChars[i] : i \in 1..Len(DigitChars)}

DigitValue(ch) == CHOOSE v \in 0..9 : DigitChars[v + 1] = ch

Reverse(s) == [i \in 1..Len(s) |-> s[Len(s) + 1 - i]]

\* Python's `t in s` on two strs: t is a contiguous substring of s.
IsSubstr(t, s) ==
    \E i \in 0..(Len(s) - Len(t)) : SubSeq(s, i + 1, i + Len(t)) = t

isdigit(token) == Len(token) > 0 /\ \A i \in 1..Len(token) : token[i] \in Digits

RECURSIVE int(_)
int(token) ==
    IF Len(token) = 0 THEN 0
    ELSE 10 * int(SubSeq(token, 1, Len(token) - 1)) + DigitValue(token[Len(token)])

\* ' '.join(list)
RECURSIVE join(_)
join(list) ==
    IF Len(list) = 0 THEN <<>>
    ELSE IF Len(list) = 1 THEN list[1]
    ELSE list[1] \o <<" ">> \o join(Tail(list))

\* str.split(): the maximal runs of non-blank characters, in order.
RECURSIVE split_scan(_, _, _, _)
split_scan(s, i, done, word) ==
    IF i > Len(s) THEN (IF word = <<>> THEN done ELSE Append(done, word))
    ELSE IF s[i] = " "
         THEN split_scan(s, i + 1, IF word = <<>> THEN done ELSE Append(done, word), <<>>)
         ELSE split_scan(s, i + 1, done, Append(word, s[i]))

split(s) == split_scan(s, 1, <<>>, <<>>)

(***************************************************************************)
(* class Stack: the items list, top at the end.                            *)
(***************************************************************************)
push(items, item) == Append(items, item)

pop(items) == SubSeq(items, 1, Len(items) - 1)

peek(items) == items[Len(items)]

is_empty(items) == Len(items) = 0

(***************************************************************************)
(* The outcomes of a call: the error it raised, if any.                    *)
(***************************************************************************)
NoError == "none"

NotCalled == [err |-> "not_called"]

(***************************************************************************)
(* tokenize                                                                *)
(***************************************************************************)
bracket_map(ch) ==
    CASE ch = "FW(" -> "("
      [] ch = "FW)" -> ")"
      [] ch = "(" -> "("
      [] ch = ")" -> ")"

Brackets == {"FW(", "FW)", "(", ")"}

valid_operators == {"+", "-", "*", "/"}

\* expression.replace(' ', '')
remove_spaces(e) == SelectSeq(e, LAMBDA ch : ch # " ")

\* The character set after which the code inserts the implicit zero.
UnaryMinusAfter == <<"(", "+">>

\* The condition of line 276, with i counted from 1.
is_unary_minus(char, i, toks, num_buffer) ==
    char = "-"
    /\ (i = 1
        \/ (num_buffer = <<>>
            /\ ((toks # <<>> /\ IsSubstr(toks[Len(toks)], UnaryMinusAfter))
                \/ toks = <<>>)))

RECURSIVE tokenize_scan(_, _, _, _)
tokenize_scan(e, i, toks, num_buffer) ==
    IF i > Len(e)
    THEN [err |-> NoError, pos |-> 0,
          tokens |-> IF num_buffer # <<>> THEN Append(toks, num_buffer) ELSE toks]
    ELSE LET char == e[i] IN
         IF char \in Digits
         THEN tokenize_scan(e, i + 1, toks, Append(num_buffer, char))
         ELSE LET t1 == IF is_unary_minus(char, i, toks, num_buffer)
                        THEN Append(toks, <<"0">>) ELSE toks
                  t2 == IF num_buffer # <<>> THEN Append(t1, num_buffer) ELSE t1
              IN IF char \in Brackets
                 THEN tokenize_scan(e, i + 1, Append(t2, <<bracket_map(char)>>), <<>>)
                 ELSE IF char \in valid_operators
                 THEN tokenize_scan(e, i + 1, Append(t2, <<char>>), <<>>)
                 ELSE [err |-> "InvalidCharacter", pos |-> i, tokens |-> <<>>]

tokenize(e) == tokenize_scan(remove_spaces(e), 1, <<>>, <<>>)

(***************************************************************************)
(* validate_expression                                                     *)
(***************************************************************************)
\* Lines 228-234.  The stack holds (token, i) with i counted from 0, as
\* enumerate counts; the position of a message is i + 1.
RECURSIVE paren_scan(_, _, _)
paren_scan(toks, i, stack) ==
    IF i > Len(toks) THEN [err |-> NoError, pos |-> 0, stack |-> stack]
    ELSE IF toks[i] = <<"(">>
         THEN paren_scan(toks, i + 1, push(stack, <<toks[i], i - 1>>))
    ELSE IF toks[i] = <<")">>
         THEN IF is_empty(stack)
              THEN [err |-> "UnbalancedParenthesis", pos |-> (i - 1) + 1, stack |-> stack]
              ELSE paren_scan(toks, i + 1, pop(stack))
    ELSE paren_scan(toks, i + 1, stack)

\* Variant: the bottom of the stack is reported instead of its top.
unclosed_position_bottom(stack) == stack[1][2] + 1

\* Lines 237-238: `_, pos = stack.peek()`, reported as pos + 1.
unclosed_position(stack) == peek(stack)[2] + 1

OperatorChars == <<"+", "-", "*", "/">>

OperatorOrOpenChars == <<"+", "-", "*", "/", "(">>

\* Line 242, for i counted from 0 in range(1, len(tokens)).
operator_misplaced(toks, i) ==
    IsSubstr(toks[i + 1], OperatorChars) /\ IsSubstr(toks[i], OperatorOrOpenChars)

validate_expression(toks) ==
    LET p == paren_scan(toks, 1, <<>>)
        bad == {i \in 1..(Len(toks) - 1) : operator_misplaced(toks, i)}
    IN IF p.err # NoError
       THEN [err |-> p.err, pos |-> p.pos, what |-> "extra_right", tokens |-> toks]
       ELSE IF ~is_empty(p.stack)
       THEN [err |-> "UnbalancedParenthesis", pos |-> unclosed_position(p.stack),
             what |-> "missing_right", tokens |-> toks]
       ELSE IF bad # {}
       THEN [err |-> "MisplacedOperator",
             pos |-> (CHOOSE i \in bad : \A j \in bad : i <= j) + 1,
             what |-> "operator", tokens |-> toks]
       ELSE [err |-> NoError, pos |-> 0, what |-> "ok", tokens |-> toks]

(***************************************************************************)
(* infix_to_postfix and infix_to_prefix                                    *)
(***************************************************************************)
precedence(t) ==
    CASE t = <<"+">> -> 2
      [] t = <<"-">> -> 2
      [] t = <<"*">> -> 3
      [] t = <<"/">> -> 3
      [] t = <<"(">> -> 0
      [] t = <<")">> -> 0

\* while not op_stack.is_empty() and op_stack.peek() != marker: out.append(op_stack.pop())
RECURSIVE pop_until(_, _, _)
pop_until(op_stack, out, marker) ==
    IF ~is_empty(op_stack) /\ peek(op_stack) # marker
    THEN pop_until(pop(op_stack), Append(out, peek(op_stack)), marker)
    ELSE [stack |-> op_stack, out |-> out]

\* Line 338.
postfix_pops(top, token) == precedence(top) >= precedence(token)

\* Variant: the reversed scan pops equal precedence too, as the forward scan.
prefix_pops_eager(top, token) == precedence(top) >= precedence(token)

\* Line 395.
prefix_pops(top, token) == precedence(top) > precedence(token)

RECURSIVE postfix_pop_while(_, _, _)
postfix_pop_while(op_stack, out, token) ==
    IF ~is_empty(op_stack) /\ postfix_pops(peek(op_stack), token)
    THEN postfix_pop_while(pop(op_stack), Append(out, peek(op_stack)), token)
    ELSE [stack |-> op_stack, out |-> out]

RECURSIVE prefix_pop_while(_, _, _)
prefix_pop_while(op_stack, out, token) ==
    IF ~is_empty(op_stack) /\ prefix_pops(peek(op_stack), token)
    THEN prefix_pop_while(pop(op_stack), Append(out, peek(op_stack)), token)
    ELSE [stack |-> op_stack, out |-> out]

\* Variant: the loop after the scan pops a leftover bracket like an operator.
RECURSIVE drain_unchecked(_, _, _)
drain_unchecked(op_stack, out, marker) ==
    IF is_empty(op_stack) THEN [err |-> NoError, stack |-> op_stack, out |-> out]
    ELSE drain_unchecked(pop(op_stack), Append(out, peek(op_stack)), marker)

\* Lines 343-346 and 400-403: the loop after the scan.
RECURSIVE drain(_, _, _)
drain(op_stack, out, marker) ==
    IF is_empty(op_stack) THEN [err |-> NoError, stack |-> op_stack, out |-> out]
    ELSE IF peek(op_stack) = marker
         THEN [err |-> "UnbalancedParenthesis", stack |-> op_stack, out |-> out]
         ELSE drain(pop(op_stack), Append(out, peek(op_stack)), marker)

RECURSIVE postfix_scan(_, _, _, _)
postfix_scan(toks, i, op_stack, out) ==
    IF i > Len(toks) THEN drain(op_stack, out, <<"(">>)
    ELSE LET token == toks[i] IN
         IF isdigit(token) THEN postfix_scan(toks, i + 1, op_stack, Append(out, token))
         ELSE IF token = <<"(">> THEN postfix_scan(toks, i + 1, push(op_stack, token), out)
         ELSE IF token = <<")">>
              THEN LET r == pop_until(op_stack, out, <<"(">>)
                   IN IF is_empty(r.stack)
                      THEN [err |-> "UnbalancedParenthesis", stack |-> r.stack, out |-> r.out]
                      ELSE postfix_scan(toks, i + 1, pop(r.stack), r.out)
         ELSE LET r == postfix_pop_while(op_stack, out, token)
              IN postfix_scan(toks, i + 1, push(r.stack, token), r.out)

infix_to_postfix(toks) ==
    LET r == postfix_scan(toks, 1, <<>>, <<>>)
    IN [err |-> r.err,
        out |-> IF r.err = NoError THEN join(r.out) ELSE <<>>,
        op_stack |-> r.stack,
        tokens |-> toks]

RECURSIVE prefix_scan(_, _, _, _)
prefix_scan(toks, i, op_stack, out) ==
    IF i > Len(toks) THEN drain(op_stack, out, <<")">>)
    ELSE LET token == toks[i] IN
         IF isdigit(token) THEN prefix_scan(toks, i + 1, op_stack, Append(out, token))
         ELSE IF token = <<")">> THEN prefix_scan(toks, i + 1, push(op_stack, token), out)
         ELSE IF token = <<"(">>
              THEN LET r == pop_until(op_stack, out, <<")">>)
                   IN IF is_empty(r.stack)
                      THEN [err |-> "UnbalancedParenthesis", stack |-> r.stack, out |-> r.out]
                      ELSE prefix_scan(toks, i + 1, pop(r.stack), r.out)
         ELSE LET r == prefix_pop_while(op_stack, out, token)
              IN prefix_scan(toks, i + 1, push(r.stack, token), r.out)

\* Variant: reverse() without the copy, on the caller's own list.
prefix_argument_reversed(toks) == Reverse(toks)

\* Lines 375-376: `tokens = tokens.copy()` rebinds the local name, so
\* reverse() acts on the copy and the caller's list is what it was.
prefix_argument_after(toks) == toks

infix_to_prefix(toks) ==
    LET r == prefix_scan(Reverse(toks), 1, <<>>, <<>>)
    IN [err |-> r.err,
        out |-> IF r.err = NoError THEN join(Reverse(r.out)) ELSE <<>>,
        op_stack |-> r.stack,
        tokens |-> prefix_argument_after(toks)]

(***************************************************************************)
(* Numbers.                                                                *)
(***************************************************************************)
ROUND_DIGITS == 6

Scale == 10 ^ ROUND_DIGITS

HalfScale == 10 ^ (ROUND_DIGITS \div 2)

\* The number n + m / Scale, for an integer n and 0 <= m < Scale.
Number(n) == [whole |-> n, micro |-> 0]

Zero == Number(0)

IsNegative(a) == a.whole < 0

Neg(a) ==
    IF a.micro = 0 THEN [whole |-> -a.whole, micro |-> 0]
    ELSE [whole |-> -a.whole - 1, micro |-> Scale - a.micro]

Abs(a) == IF IsNegative(a) THEN Neg(a) ELSE a

\* The number w + m / Scale for naturals w and m, m not yet below Scale.
Carry(w, m) == [whole |-> w + (m \div Scale), micro |-> m % Scale]

Signed(negative, a) == IF negative THEN Neg(a) ELSE a

Add(a, b) == Carry(a.whole + b.whole, a.micro + b.micro)

Sub(a, b) == Add(a, Neg(b))

\* The next k decimal digits of r / y, for 0 <= r < y, and what remains.
RECURSIVE frac_digits(_, _, _, _)
frac_digits(r, y, k, acc) ==
    IF k = 0 THEN [digits |-> acc, rest |-> r]
    ELSE frac_digits((r * 10) % y, y, k - 1, acc * 10 + ((r * 10) \div y))

\* x / y for naturals x and y > 0, to six fractional digits: the seventh
\* rounds to nearest, a tie to the even neighbour.
RoundedQuotient(x, y) ==
    LET f == frac_digits(x % y, y, ROUND_DIGITS, 0)
        up == IF 2 * f.rest > y THEN 1
              ELSE IF 2 * f.rest = y THEN f.digits % 2
              ELSE 0
    IN Carry(x \div y, f.digits + up)

\* round(a / b, 6) for b # 0.
Div(a, b) ==
    LET x == Abs(a)
        y == Abs(b)
        q == IF x.micro = 0 /\ y.micro = 0
             THEN RoundedQuotient(x.whole, y.whole)
             ELSE RoundedQuotient(x.whole * Scale + x.micro, y.whole * Scale + y.micro)
    IN Signed(IsNegative(a) # IsNegative(b), q)

\* a * b.  With an integer factor the product is exact.
Mul(a, b) ==
    LET x == Abs(a)
        y == Abs(b)
        a1 == x.micro \div HalfScale
        a0 == x.micro % HalfScale
        b1 == y.micro \div HalfScale
        b0 == y.micro % HalfScale
        t == (a1 * b0 + a0 * b1) * HalfScale + a0 * b0
        ff == a1 * b1 + (t \div Scale) + (IF 2 * (t % Scale) >= Scale THEN 1 ELSE 0)
    IN Signed(IsNegative(a) # IsNegative(b),
              Carry(x.whole * y.whole, x.whole * y.micro + x.micro * y.whole + ff))

(***************************************************************************)
(* evaluate_postfix and evaluate_prefix                                    *)
(***************************************************************************)
\* Lines 445-457 and 506-518: `a op b`, the divisor b tested against zero.
apply(token, a, b) ==
    IF token = <<"+">> THEN [err |-> NoError, value |-> Add(a, b)]
    ELSE IF token = <<"-">> THEN [err |-> NoError, value |-> Sub(a, b)]
    ELSE IF token = <<"*">> THEN [err |-> NoError, value |-> Mul(a, b)]
    ELSE IF token = <<"/">>
         THEN IF b = Zero THEN [err |-> "DivisionByZero"]
              ELSE [err |-> NoError, value |-> Div(a, b)]
    ELSE [err |-> "InvalidOperator"]

\* Lines 440-441: b = pop(), then a = pop().
postfix_operands(stack) == [b |-> peek(stack), a |-> peek(pop(stack))]

\* Variant: the prefix evaluator names its operands as the postfix one does.
prefix_operands_as_postfix(stack) == [b |-> peek(stack), a |-> peek(pop(stack))]

\* Lines 501-502: a = pop(), then b = pop().
prefix_operands(stack) == [a |-> peek(stack), b |-> peek(pop(stack))]

\* Lines 439-443 and 500-504: either pop of an empty stack raises IndexError.
has_two_operands(stack) == Len(stack) >= 2

\* Variant: the top is returned whatever else is left on the stack.
final_stack_nonempty(stack) == Len(stack) >= 1

\* Lines 461-462 and 522-523.
final_stack_ok(stack) == Len(stack) = 1

RECURSIVE postfix_eval_scan(_, _, _)
postfix_eval_scan(toks, i, stack) ==
    IF i > Len(toks)
    THEN IF final_stack_ok(stack)
         THEN [err |-> NoError, value |-> peek(stack)]
         ELSE [err |-> "MalformedExpression"]
    ELSE LET token == toks[i] IN
         IF isdigit(token) THEN postfix_eval_scan(toks, i + 1, push(stack, Number(int(token))))
         ELSE IF ~has_two_operands(stack) THEN [err |-> "MalformedExpression"]
         ELSE LET o == postfix_operands(stack)
                  r == apply(token, o.a, o.b)
              IN IF r.err # NoError THEN r
                 ELSE postfix_eval_scan(toks, i + 1, push(pop(pop(stack)), r.value))

evaluate_postfix(postfix_expr) == postfix_eval_scan(split(postfix_expr), 1, <<>>)

RECURSIVE prefix_eval_scan(_, _, _)
prefix_eval_scan(toks, i, stack) ==
    IF i > Len(toks)
    THEN IF final_stack_ok(stack)
         THEN [err |-> NoError, value |-> peek(stack)]
         ELSE [err |-> "MalformedExpression"]
    ELSE LET token == toks[i] IN
         IF isdigit(token) THEN prefix_eval_scan(toks, i + 1, push(stack, Number(int(token))))
         ELSE IF ~has_two_operands(stack) THEN [err |-> "MalformedExpression"]
         ELSE LET o == prefix_operands(stack)
                  r == apply(token, o.a, o.b)
              IN IF r.err # NoError THEN r
                 ELSE prefix_eval_scan(toks, i + 1, push(pop(pop(stack)), r.value))

\* Line 492: tokens.reverse() before the scan.
evaluate_prefix(prefix_expr) == prefix_eval_scan(Reverse(split(prefix_expr)), 1, <<>>)

(***************************************************************************)
(* The debug collector: logger -> debug_handler.emit -> messages.append.   *)
(* The logger's level is DEBUG from line 177 on, so every log_debug call   *)
(* of a core function appends to the one process-wide list.  A message's   *)
(* timestamp and timing text are left out; it keeps who logged what.       *)
(***************************************************************************)
log_debug(msgs, c, event) ==
    Append(msgs, [caller |-> c, level |-> "DEBUG", event |-> event])

log_error(msgs, c, event) ==
    Append(msgs, [caller |-> c, level |-> "ERROR", event |-> event])

\* Lines 290 and 297-298.
tokenize_logs(msgs, c, r) ==
    IF r.err # NoError THEN log_error(msgs, c, "invalid_character")
    ELSE log_debug(log_debug(msgs, c, "tokenize_time"), c, "tokenize_result")

\* Lines 349-350 and 408-409: nothing is logged when the converter raises.
convert_logs(msgs, c, r, name) ==
    IF r.err # NoError THEN msgs
    ELSE log_debug(log_debug(msgs, c, name), c, "stack_operations")

\* Lines 429, 466-468 and 488, 527-529.
evaluate_logs(msgs, c, r, name) ==
    LET started == log_debug(msgs, c, name)
    IN IF r.err # NoError THEN started
       ELSE log_debug(log_debug(log_debug(started, c, "result"), c, "evaluate_time"),
                      c, "stack_operations")

Outcome(r) == [f \in (DOMAIN r) \ {"tokens"} |-> r[f]]

Raised(r) == [err |-> r.err, pos |-> IF "pos" \in DOMAIN r THEN r.pos ELSE 0]

NoException == [err |-> NoError, pos |-> 0]

(***************************************************************************)
(* main(), lines 591-612: the calls of the try block in their order.  An   *)
(* exception leaves the block, so the later calls are not made.            *)
(***************************************************************************)
Tokenize(c) ==
    /\ pc[c] = "tokenize"
    /\ LET r == tokenize(expression[c]) IN
       /\ tokens' = [tokens EXCEPT ![c] = r.tokens]
       /\ error' = [error EXCEPT ![c] = Raised(r)]
       /\ pc' = [pc EXCEPT ![c] = IF r.err = NoError THEN "validate" ELSE "failed"]
       /\ messages' = tokenize_logs(messages, c, r)
    /\ UNCHANGED <<expression, prefix, postfix, post_result, pre_result, verdict>>

Validate(c) ==
    /\ pc[c] = "validate"
    /\ LET r == validate_expression(tokens[c]) IN
       /\ tokens' = [tokens EXCEPT ![c] = r.tokens]
       /\ verdict' = [verdict EXCEPT ![c] = Outcome(r)]
       /\ error' = [error EXCEPT ![c] = Raised(r)]
       /\ pc' = [pc EXCEPT ![c] = IF r.err = NoError THEN "to_prefix" ELSE "failed"]
    /\ UNCHANGED <<expression, prefix, postfix, post_result, pre_result, messages>>

ToPrefix(c) ==
    /\ pc[c] = "to_prefix"
    /\ LET r == infix_to_prefix(tokens[c]) IN
       /\ tokens' = [tokens EXCEPT ![c] = r.tokens]
       /\ prefix' = [prefix EXCEPT ![c] = Outcome(r)]
       /\ error' = [error EXCEPT ![c] = Raised(r)]
       /\ pc' = [pc EXCEPT ![c] = IF r.err = NoError THEN "to_postfix" ELSE "failed"]
       /\ messages' = convert_logs(messages, c, r, "prefix_time")
    /\ UNCHANGED <<expression, postfix, post_result, pre_result, verdict>>

ToPostfix(c) ==
    /\ pc[c] = "to_postfix"
    /\ LET r == infix_to_postfix(tokens[c]) IN
       /\ tokens' = [tokens EXCEPT ![c] = r.tokens]
       /\ postfix' = [postfix EXCEPT ![c] = Outcome(r)]
       /\ error' = [error EXCEPT ![c] = Raised(r)]
       /\ pc' = [pc EXCEPT ![c] = IF r.err = NoError THEN "evaluate_postfix" ELSE "failed"]
       /\ messages' = convert_logs(messages, c, r, "postfix_time")
    /\ UNCHANGED <<expression, prefix, post_result, pre_result, verdict>>

EvaluatePostfix(c) ==
    /\ pc[c] = "evaluate_postfix"
    /\ LET r == evaluate_postfix(postfix[c].out) IN
       /\ post_result' = [post_result EXCEPT ![c] = r]
       /\ error' = [error EXCEPT ![c] = Raised(r)]
       /\ pc' = [pc EXCEPT ![c] = IF r.err = NoError THEN "evaluate_prefix" ELSE "failed"]
       /\ messages' = evaluate_logs(messages, c, r, "postfix_start")
    /\ UNCHANGED <<expression, tokens, prefix, postfix, pre_result, verdict>>

EvaluatePrefix(c) ==
    /\ pc[c] = "evaluate_prefix"
    /\ LET r == evaluate_prefix(prefix[c].out) IN
       /\ pre_result' = [pre_result EXCEPT ![c] = r]
       /\ error' = [error EXCEPT ![c] = Raised(r)]
       /\ pc' = [pc EXCEPT ![c] = IF r.err = NoError THEN "done" ELSE "failed"]
       /\ messages' = evaluate_logs(messages, c, r, "prefix_start")
    /\ UNCHANGED <<expression, tokens, prefix, postfix, post_result, verdict>>

Next ==
    \E c \in Callers :
        \/ Tokenize(c)
        \/ Validate(c)
        \/ ToPrefix(c)
        \/ ToPostfix(c)
        \/ EvaluatePostfix(c)
        \/ EvaluatePrefix(c)

(***************************************************************************)
(* The inputs.                                                             *)
(***************************************************************************)
SeqsUpTo(S, n) == UNION {[1..k -> S] : k \in 0..n}

InputDigits == {DigitChars[v + 1] : v \in 0..MaxDigit}

\* Digits, the operators, both kinds of bracket, a blank, and a character
\* the tokenizer rejects.
InputChars == InputDigits \cup valid_operators \cup Brackets \cup {" ", "a"}

\* Lines 561-566: main strips the line and passes on only a non-empty one.
Stripped(e) == e # <<>> /\ e[1] # " " /\ e[Len(e)] # " "

InputLines == {e \in SeqsUpTo(InputChars, MaxLen) : Stripped(e)}

Fresh ==
    /\ tokens = [c \in Callers |-> <<>>]
    /\ error = [c \in Callers |-> NoException]
    /\ prefix = [c \in Callers |-> NotCalled]
    /\ postfix = [c \in Callers |-> NotCalled]
    /\ post_result = [c \in Callers |-> NotCalled]
    /\ pre_result = [c \in Callers |-> NotCalled]
    /\ verdict = [c \in Callers |-> NotCalled]
    /\ messages = <<>>

\* One caller runs the try block on an input line; the other makes no call.
Init ==
    /\ \E e \in InputLines :
           expression = [c \in Callers |-> IF c = 1 THEN e ELSE <<>>]
    /\ pc = [c \in Callers |-> IF c = 1 THEN "tokenize" ELSE "idle"]
    /\ Fresh

Spec == Init /\ [][Next]_vars

(***************************************************************************)
(* The functions called one by one on one token list, each call made       *)
(* whatever the one before it raised: validate_expression, then            *)
(* infix_to_postfix and evaluate_postfix on its result, then               *)
(* infix_to_prefix and evaluate_prefix on its result.                      *)
(***************************************************************************)
CallTokenize(c) ==
    /\ pc[c] = "call_tokenize"
    /\ LET r == tokenize(expression[c]) IN
       /\ tokens' = [tokens EXCEPT ![c] = r.tokens]
       /\ error' = [error EXCEPT ![c] = Raised(r)]
       /\ pc' = [pc EXCEPT ![c] = IF r.err = NoError THEN "call_validate" ELSE "failed"]
       /\ messages' = tokenize_logs(messages, c, r)
    /\ UNCHANGED <<expression, prefix, postfix, post_result, pre_result, verdict>>

CallValidate(c) ==
    /\ pc[c] = "call_validate"
    /\ LET r == validate_expression(tokens[c]) IN
       /\ tokens' = [tokens EXCEPT ![c] = r.tokens]
       /\ verdict' = [verdict EXCEPT ![c] = Outcome(r)]
    /\ pc' = [pc EXCEPT ![c] = "call_to_postfix"]
    /\ UNCHANGED <<expression, error, prefix, postfix, post_result, pre_result, messages>>

CallInfixToPostfix(c) ==
    /\ pc[c] = "call_to_postfix"
    /\ LET r == infix_to_postfix(tokens[c]) IN
       /\ tokens' = [tokens EXCEPT ![c] = r.tokens]
       /\ postfix' = [postfix EXCEPT ![c] = Outcome(r)]
       /\ messages' = convert_logs(messages, c, r, "postfix_time")
    /\ pc' = [pc EXCEPT ![c] = "call_evaluate_postfix"]
    /\ UNCHANGED <<expression, error, prefix, post_result, pre_result, verdict>>

CallEvaluatePostfix(c) ==
    /\ pc[c] = "call_evaluate_postfix"
    /\ IF postfix[c].err = NoError
       THEN LET r == evaluate_postfix(postfix[c].out) IN
            /\ post_result' = [post_result EXCEPT ![c] = r]
            /\ messages' = evaluate_logs(messages, c, r, "postfix_start")
       ELSE UNCHANGED <<post_result, messages>>
    /\ pc' = [pc EXCEPT ![c] = "call_to_prefix"]
    /\ UNCHANGED <<expression, tokens, error, prefix, postfix, pre_result, verdict>>

CallInfixToPrefix(c) ==
    /\ pc[c] = "call_to_prefix"
    /\ LET r == infix_to_prefix(tokens[c]) IN
       /\ tokens' = [tokens EXCEPT ![c] = r.tokens]
       /\ prefix' = [prefix EXCEPT ![c] = Outcome(r)]
       /\ messages' = convert_logs(messages, c, r, "prefix_time")
    /\ pc' = [pc EXCEPT ![c] = "call_evaluate_prefix"]
    /\ UNCHANGED <<expression, error, postfix, post_result, pre_result, verdict>>

CallEvaluatePrefix(c) ==
    /\ pc[c] = "call_evaluate_prefix"
    /\ IF prefix[c].err = NoError
       THEN LET r == evaluate_prefix(prefix[c].out) IN
            /\ pre_result' = [pre_result EXCEPT ![c] = r]
            /\ messages' = evaluate_logs(messages, c, r, "prefix_start")
       ELSE UNCHANGED <<pre_result, messages>>
    /\ pc' = [pc EXCEPT ![c] = "returned"]
    /\ UNCHANGED <<expression, tokens, error, prefix, postfix, post_result, verdict>>

NextCalls ==
    \E c \in Callers :
        \/ CallValidate(c)
        \/ CallInfixToPostfix(c)
        \/ CallEvaluatePostfix(c)
        \/ CallInfixToPrefix(c)
        \/ CallEvaluatePrefix(c)

NextInfix ==
    \E c \in Callers :
        \/ CallTokenize(c)
        \/ CallValidate(c)
        \/ CallInfixToPostfix(c)
        \/ CallEvaluatePostfix(c)
        \/ CallInfixToPrefix(c)
        \/ CallEvaluatePrefix(c)

\* The evaluators called on a string of their caller's own.
DirectEvaluatePostfix(c) ==
    /\ pc[c] = "direct_postfix"
    /\ LET r == evaluate_postfix(expression[c]) IN
       /\ post_result' = [post_result EXCEPT ![c] = r]
       /\ messages' = evaluate_logs(messages, c, r, "postfix_start")
    /\ pc' = [pc EXCEPT ![c] = "direct_prefix"]
    /\ UNCHANGED <<expression, tokens, error, prefix, postfix, pre_result, verdict>>

DirectEvaluatePrefix(c) ==
    /\ pc[c] = "direct_prefix"
    /\ LET r == evaluate_prefix(expression[c]) IN
       /\ pre_result' = [pre_result EXCEPT ![c] = r]
       /\ messages' = evaluate_logs(messages, c, r, "prefix_start")
    /\ pc' = [pc EXCEPT ![c] = "returned"]
    /\ UNCHANGED <<expression, tokens, error, prefix, postfix, post_result, verdict>>

NextEvaluate ==
    \E c \in Callers :
        \/ DirectEvaluatePostfix(c)
        \/ DirectEvaluatePrefix(c)

(***************************************************************************)
(* Token lists as inputs.                                                  *)
(***************************************************************************)
NumberToken(n) == <<DigitChars[n + 1]>>

OperatorTokens == {<<op>> : op \in valid_operators}

ParenTokens == {<<"(">>, <<")">>}

\* Zero and a non-zero number.
ZeroAndOne == {NumberToken(0), NumberToken(1)}

OperandTokens == {NumberToken(n) : n \in 0..MaxOperand}

\* Every list of at most MaxTokens numbers, operators and parentheses.
AnyTokens == SeqsUpTo(ZeroAndOne \cup OperatorTokens \cup ParenTokens, MaxTokens)

\* Every list of at most MaxTokens numbers and operators.
AnyPolish == SeqsUpTo(OperandTokens \cup OperatorTokens, MaxTokens)

\* The well-formed infix expressions of exactly n tokens:
\*   E ::= number | ( E ) | E op E
RECURSIVE InfixOfLen(_)
InfixOfLen(n) ==
    IF n < 1 THEN {}
    ELSE (IF n = 1 THEN {<<t>> : t \in OperandTokens} ELSE {})
         \cup {<< <<"(">> >> \o e \o << <<")">> >> : e \in InfixOfLen(n - 2)}
         \cup UNION {{l \o <<op>> \o r :
                          l \in InfixOfLen(k), r \in InfixOfLen(n - 1 - k),
                          op \in OperatorTokens} : k \in 1..(n - 2)}

Infix == UNION {InfixOfLen(n) : n \in 1..MaxInfixLen}

\* The text of a token list: its tokens one after the other.
RECURSIVE Text(_)
Text(toks) == IF toks = <<>> THEN <<>> ELSE toks[1] \o Text(Tail(toks))

InitCalls ==
    /\ \E t \in AnyTokens :
           tokens = [c \in Callers |-> IF c = 1 THEN t ELSE <<>>]
    /\ expression = [c \in Callers |-> <<>>]
    /\ pc = [c \in Callers |-> IF c = 1 THEN "call_validate" ELSE "idle"]
    /\ error = [c \in Callers |-> NoException]
    /\ prefix = [c \in Callers |-> NotCalled]
    /\ postfix = [c \in Callers |-> NotCalled]
    /\ post_result = [c \in Callers |-> NotCalled]
    /\ pre_result = [c \in Callers |-> NotCalled]
    /\ verdict = [c \in Callers |-> NotCalled]
    /\ messages = <<>>

SpecCalls == InitCalls /\ [][NextCalls]_vars

InitInfix ==
    /\ \E t \in Infix :
           expression = [c \in Callers |-> IF c = 1 THEN Text(t) ELSE <<>>]
    /\ pc = [c \in Callers |-> IF c = 1 THEN "call_tokenize" ELSE "idle"]
    /\ Fresh

SpecInfix == InitInfix /\ [][NextInfix]_vars

InitEvaluate ==
    /\ \E t \in AnyPolish :
           /\ tokens = [c \in Callers |-> IF c = 1 THEN t ELSE <<>>]
           /\ expression = [c \in Callers |-> IF c = 1 THEN join(t) ELSE <<>>]
    /\ pc = [c \in Callers |-> IF c = 1 THEN "direct_postfix" ELSE "idle"]
    /\ error = [c \in Callers |-> NoException]
    /\ prefix = [c \in Callers |-> NotCalled]
    /\ postfix = [c \in Callers |-> NotCalled]
    /\ post_result = [c \in Callers |-> NotCalled]
    /\ pre_result = [c \in Callers |-> NotCalled]
    /\ verdict = [c \in Callers |-> NotCalled]
    /\ messages = <<>>

SpecEvaluate == InitEvaluate /\ [][NextEvaluate]_vars

\* Two callers run the try block at the same time, each on a line of its own.
InitConcurrent ==
    /\ expression \in [Callers -> {e \in SeqsUpTo(InputDigits \cup {"+", "(", "a"}, 2) : Stripped(e)}]
    /\ pc = [c \in Callers |-> "tokenize"]
    /\ Fresh

SpecConcurrent == InitConcurrent /\ [][Next]_vars

(***************************************************************************)
(* What the claims are stated with: the structure of a token list, read    *)
(* off the list itself and not off a stack.                                *)
(***************************************************************************)
Range(s) == {s[i] : i \in 1..Len(s)}

Max(S) == CHOOSE x \in S : \A y \in S : y <= x

Min(S) == CHOOSE x \in S : \A y \in S : x <= y

\* How many of ts[from..to] are the token tok.
Count(ts, tok, from, to) == Cardinality({j \in from..to : ts[j] = tok})

\* No ')' comes without a '(' open before it.
NoUnmatchedClose(ts) ==
    \A j \in 1..Len(ts) : Count(ts, <<")">>, 1, j) <= Count(ts, <<"(">>, 1, j)

\* The '(' at i is never closed: no ')' after it closes more than was opened
\* after it.
Unclosed(ts) ==
    {i \in 1..Len(ts) :
        /\ ts[i] = <<"(">>
        /\ \A j \in (i + 1)..Len(ts) :
               Count(ts, <<")">>, i + 1, j) <= Count(ts, <<"(">>, i + 1, j)}

Balanced(ts) ==
    /\ NoUnmatchedClose(ts)
    /\ Count(ts, <<")">>, 1, Len(ts)) = Count(ts, <<"(">>, 1, Len(ts))

\* The operators of ts that stand outside every parenthesis.
TopLevel(ts, ops) ==
    {i \in 1..Len(ts) :
        /\ ts[i] \in ops
        /\ Count(ts, <<"(">>, 1, i - 1) = Count(ts, <<")">>, 1, i - 1)}

Additive == {<<"+">>, <<"-">>}

Multiplicative == {<<"*">>, <<"/">>}

\* Where a left-associative reading splits ts: at its last top-level + or -,
\* else at its last top-level * or /, else nowhere (0).
SplitAt(ts) ==
    IF TopLevel(ts, Additive) # {} THEN Max(TopLevel(ts, Additive))
    ELSE IF TopLevel(ts, Multiplicative) # {} THEN Max(TopLevel(ts, Multiplicative))
    ELSE 0

\* E ::= number | ( E ) | E op E
RECURSIVE WellFormed(_)
WellFormed(ts) ==
    LET k == SplitAt(ts) IN
    IF k # 0
    THEN WellFormed(SubSeq(ts, 1, k - 1)) /\ WellFormed(SubSeq(ts, k + 1, Len(ts)))
    ELSE IF Len(ts) = 1 THEN isdigit(ts[1])
    ELSE /\ Len(ts) >= 3
         /\ ts[1] = <<"(">>
         /\ ts[Len(ts)] = <<")">>
         /\ WellFormed(SubSeq(ts, 2, Len(ts) - 1))

\* The integer a division-free well-formed expression denotes.
RECURSIVE IntValue(_)
IntValue(ts) ==
    LET k == SplitAt(ts) IN
    IF k # 0
    THEN LET l == IntValue(SubSeq(ts, 1, k - 1))
             r == IntValue(SubSeq(ts, k + 1, Len(ts)))
         IN IF ts[k] = <<"+">> THEN l + r
            ELSE IF ts[k] = <<"-">> THEN l - r
            ELSE l * r
    ELSE IF Len(ts) = 1 THEN int(ts[1])
    ELSE IntValue(SubSeq(ts, 2, Len(ts) - 1))

\* What a well-formed expression denotes: its number, or DivisionByZero when
\* the right-hand operand of one of its divisions is zero.
RECURSIVE Meaning(_)
Meaning(ts) ==
    LET k == SplitAt(ts) IN
    IF k # 0
    THEN LET l == Meaning(SubSeq(ts, 1, k - 1))
             r == Meaning(SubSeq(ts, k + 1, Len(ts)))
         IN IF l.err # NoError THEN l
            ELSE IF r.err # NoError THEN r
            ELSE IF ts[k] = <<"+">> THEN [err |-> NoError, value |-> Add(l.value, r.value)]
            ELSE IF ts[k] = <<"-">> THEN [err |-> NoError, value |-> Sub(l.value, r.value)]
            ELSE IF ts[k] = <<"*">> THEN [err |-> NoError, value |-> Mul(l.value, r.value)]
            ELSE IF r.value = Zero THEN [err |-> "DivisionByZero"]
            ELSE [err |-> NoError, value |-> Div(l.value, r.value)]
    ELSE IF Len(ts) = 1 THEN [err |-> NoError, value |-> Number(int(ts[1]))]
    ELSE Meaning(SubSeq(ts, 2, Len(ts) - 1))

\* In a list of numbers and operators read left to right: the operands on
\* the stack before token i, while no operator before it lacked one.
OperandsBefore(ts, i) ==
    Cardinality({j \in 1..(i - 1) : isdigit(ts[j])})
    - Cardinality({j \in 1..(i - 1) : ~isdigit(ts[j])})

\* The operators that find fewer than two operands.
Starved(ts) == {i \in 1..Len(ts) : ~isdigit(ts[i]) /\ OperandsBefore(ts, i) < 2}

\* Every operator finds two operands and one value is left at the end.
PolishShape(ts) == Starved(ts) = {} /\ OperandsBefore(ts, Len(ts) + 1) = 1

\* Where the scan of ts ends if nothing divides by zero.
ScanEnd(ts) == IF Starved(ts) # {} THEN Min(Starved(ts)) ELSE Len(ts) + 1

DividesBefore(ts, i) == \E j \in 1..(i - 1) : ts[j] = <<"/">>

Returned(r) == r.err = NoError

SameOutcome(r, q) ==
    /\ r.err = q.err
    /\ Returned(r) => r.value = q.value

(***************************************************************************)
(* C1.  For a well-formed expression without division, the postfix and     *)
(* the prefix pipeline both return the value the expression has under      *)
(* standard precedence and left associativity.                             *)
(***************************************************************************)
C1_BothPipelinesGiveTheValue ==
    \A c \in Callers :
        (pc[c] = "returned" /\ WellFormed(tokens[c]) /\ <<"/">> \notin Range(tokens[c]))
        => /\ verdict[c].err = NoError
           /\ Returned(post_result[c])
           /\ Returned(pre_result[c])
           /\ post_result[c].value = Number(IntValue(tokens[c]))
           /\ pre_result[c].value = Number(IntValue(tokens[c]))

\* A parenthesised expression with - and * has gone through both pipelines.
C1_Witness ==
    /\ pc[1] = "returned"
    /\ WellFormed(tokens[1])
    /\ <<"/">> \notin Range(tokens[1])
    /\ {<<"-">>, <<"*">>, <<"(">>} \subseteq Range(tokens[1])
    /\ Returned(post_result[1])
    /\ Returned(pre_result[1])

(***************************************************************************)
(* C2.  In tokenize's output no '-' directly follows an operator or a '(', *)
(* and validate_expression reports no MisplacedOperator at a '-'.          *)
(***************************************************************************)
C2_NoMinusAfterOperator ==
    \A c \in Callers :
        /\ pc[c] = "validate"
           => \A i \in 2..Len(tokens[c]) :
                  tokens[c][i] = <<"-">>
                  => tokens[c][i - 1] \notin (OperatorTokens \cup {<<"(">>})
        /\ (verdict[c].err = "MisplacedOperator")
           => tokens[c][verdict[c].pos] # <<"-">>

(***************************************************************************)
(* C3.  When some '(' stay unclosed and no ')' is unmatched,               *)
(* validate_expression raises UnbalancedParenthesis with the position of   *)
(* the last (rightmost) unclosed '('.  As first stated: of the first       *)
(* (leftmost) one.                                                         *)
(***************************************************************************)
C3_ReportsLastUnclosed ==
    \A c \in Callers :
        (verdict[c] # NotCalled /\ NoUnmatchedClose(tokens[c]) /\ Unclosed(tokens[c]) # {})
        => /\ verdict[c].err = "UnbalancedParenthesis"
           /\ verdict[c].pos = Max(Unclosed(tokens[c]))

C3_ReportsFirstUnclosed ==
    \A c \in Callers :
        (verdict[c] # NotCalled /\ NoUnmatchedClose(tokens[c]) /\ Unclosed(tokens[c]) # {})
        => /\ verdict[c].err = "UnbalancedParenthesis"
           /\ verdict[c].pos = Min(Unclosed(tokens[c]))

\* validate_expression has run on a list with two unclosed '('.
C3_Witness ==
    /\ verdict[1] # NotCalled
    /\ NoUnmatchedClose(tokens[1])
    /\ Cardinality(Unclosed(tokens[1])) >= 2
    /\ verdict[1].err = "UnbalancedParenthesis"

(***************************************************************************)
(* C4.  Each converter raises UnbalancedParenthesis exactly when the       *)
(* parentheses of its token list are not balanced, which is exactly when   *)
(* validate_expression's parenthesis check rejects the list; on a balanced *)
(* list each returns with its operator stack empty.                        *)
(***************************************************************************)
C4_ConvertersRaiseIffUnbalanced ==
    \A c \in Callers :
        pc[c] = "returned"
        => /\ (postfix[c].err = "UnbalancedParenthesis") <=> ~Balanced(tokens[c])
           /\ (prefix[c].err = "UnbalancedParenthesis") <=> ~Balanced(tokens[c])
           /\ (verdict[c].what \in {"extra_right", "missing_right"}) <=> ~Balanced(tokens[c])
           /\ Balanced(tokens[c])
              => /\ postfix[c].err = NoError /\ postfix[c].op_stack = <<>>
                 /\ prefix[c].err = NoError /\ prefix[c].op_stack = <<>>

\* Both converters have raised on a list with an operator inside an
\* unclosed '('.
C4_Witness ==
    /\ pc[1] = "returned"
    /\ NoUnmatchedClose(tokens[1])
    /\ \E i \in Unclosed(tokens[1]) :
           \E j \in (i + 1)..Len(tokens[1]) : tokens[1][j] \in OperatorTokens
    /\ postfix[1].err = "UnbalancedParenthesis"
    /\ prefix[1].err = "UnbalancedParenthesis"

(***************************************************************************)
(* C5.  On a list of numbers and operators an evaluator returns a number   *)
(* only if every operator found two operands and one value was left; when  *)
(* an operator lacks an operand or the values left are not one, the call   *)
(* returns no value, and raises MalformedExpression unless a division by   *)
(* zero came first.                                                        *)
(***************************************************************************)
C5_EvaluatorChecksShape ==
    \A c \in Callers :
        pc[c] = "returned"
        => LET fwd == tokens[c]
               bwd == Reverse(tokens[c])
           IN /\ Returned(post_result[c]) => PolishShape(fwd)
              /\ Returned(pre_result[c]) => PolishShape(bwd)
              /\ Returned(post_result[c]) <=> "value" \in DOMAIN post_result[c]
              /\ Returned(pre_result[c]) <=> "value" \in DOMAIN pre_result[c]
              /\ (~PolishShape(fwd) /\ ~DividesBefore(fwd, ScanEnd(fwd)))
                 => post_result[c].err = "MalformedExpression"
              /\ (~PolishShape(bwd) /\ ~DividesBefore(bwd, ScanEnd(bwd)))
                 => pre_result[c].err = "MalformedExpression"
              /\ (~PolishShape(fwd))
                 => post_result[c].err \in {"MalformedExpression", "DivisionByZero"}
              /\ (~PolishShape(bwd))
                 => pre_result[c].err \in {"MalformedExpression", "DivisionByZero"}

\* The postfix evaluator has raised on a list that leaves two values, the
\* prefix evaluator on one whose operator lacks an operand.
C5_Witness ==
    /\ pc[1] = "returned"
    /\ Starved(tokens[1]) = {}
    /\ OperandsBefore(tokens[1], Len(tokens[1]) + 1) = 2
    /\ post_result[1].err = "MalformedExpression"
    /\ Starved(Reverse(tokens[1])) # {}
    /\ pre_result[1].err = "MalformedExpression"

(***************************************************************************)
(* C6.  On a well-formed expression both evaluators raise DivisionByZero   *)
(* exactly when the right-hand operand of one of its divisions is zero; a  *)
(* zero dividend over a non-zero divisor raises nothing.                   *)
(***************************************************************************)
C6_DivisionByZeroIffDivisorZero ==
    \A c \in Callers :
        (pc[c] = "returned" /\ WellFormed(tokens[c]))
        => /\ post_result[c].err = Meaning(tokens[c]).err
           /\ pre_result[c].err = Meaning(tokens[c]).err
           /\ post_result[c].err \in {NoError, "DivisionByZero"}

\* Both evaluators have raised DivisionByZero on a non-zero number divided
\* by zero.
C6_Witness ==
    /\ pc[1] = "returned"
    /\ \E i \in 1..(Len(tokens[1]) - 2) :
           /\ tokens[1][i] = <<"1">>
           /\ tokens[1][i + 1] = <<"/">>
           /\ tokens[1][i + 2] = <<"0">>
    /\ post_result[1].err = "DivisionByZero"
    /\ pre_result[1].err = "DivisionByZero"

(***************************************************************************)
(* C7.  validate_expression, infix_to_prefix and infix_to_postfix leave    *)
(* the caller's token list as tokenize returned it, and each converter     *)
(* works on that list.                                                     *)
(***************************************************************************)
C7_CallerTokensUnchanged ==
    \A c \in Callers :
        /\ pc[c] \notin {"tokenize", "idle"}
           => tokens[c] = tokenize(expression[c]).tokens
        /\ prefix[c] # NotCalled
           => prefix[c].out = infix_to_prefix(tokenize(expression[c]).tokens).out
        /\ postfix[c] # NotCalled
           => postfix[c].out = infix_to_postfix(tokenize(expression[c]).tokens).out

\* The three calls have been made on a list that reads differently backwards.
C7_Witness ==
    /\ pc[1] = "done"
    /\ tokens[1] # Reverse(tokens[1])
    /\ tokens[1] = tokenize(expression[1]).tokens

(***************************************************************************)
(* C8.  The core functions write only structures local to the call, so     *)
(* nothing holds what two different calls wrote.                           *)
(***************************************************************************)
C8_NoStateSharedByCalls ==
    \A i, j \in 1..Len(messages) : messages[i].caller = messages[j].caller

(***************************************************************************)
(* C9.  On every token list validate_expression accepts, the postfix and   *)
(* the prefix pipeline have the same outcome: the same number or the same  *)
(* kind of error.                                                          *)
(***************************************************************************)
C9_PipelinesSameOutcome ==
    \A c \in Callers :
        (pc[c] = "returned" /\ verdict[c].err = NoError)
        => SameOutcome(post_result[c], pre_result[c])

(***************************************************************************)
(* C10.  When a pipeline returns a number, the token list of the input is  *)
(* a well-formed infix expression.                                         *)
(***************************************************************************)
C10_NumberOnlyForWellFormed ==
    \A c \in Callers :
        (Returned(post_result[c]) \/ Returned(pre_result[c]))
        => WellFormed(tokens[c])

====
